---- MODULE Spec2Model ----
(***************************************************************************)
(* Model of minibook.py: booklet imposition of a PDF with pypdf.           *)
(*                                                                         *)
(* run_minibook is modelled as a sequential state machine: argument        *)
(* checks, opening the reader, padding the deck to a multiple of 8,        *)
(* one step per iteration of the spread loop, creation of the writer,      *)
(* one step per iteration of the sheet loop, and the output phase          *)
(* (open, one step per serialized chunk, completion).                      *)
(*                                                                         *)
(* Lengths are integers in a unit in which the halves the program takes    *)
(* (FINAL_HEIGHT / 2, SPREAD_WIDTH / 2) are exact, as they are in binary   *)
(* floating point.  A Transformation is pypdf's ctm <<a, b, c, d, e, f>>;  *)
(* its linear part a..d is stored in halves (2 stands for 1.0, 1 for 0.5,  *)
(* -2 for -1.0) so that scale(0.5, 0.5) is representable; e and f are      *)
(* lengths.                                                                *)
(***************************************************************************)
EXTENDS Integers, Sequences, FiniteSets, TLC

VARIABLES args, doc, pc, err, reader, FINAL_WIDTH, FINAL_HEIGHT, pages,
          i, spread_pages, final_writer, j, out

vars == <<args, doc, pc, err, reader, FINAL_WIDTH, FINAL_HEIGHT, pages,
          i, spread_pages, final_writer, j, out>>

(* ---------------------------- bounds ----------------------------------- *)

MaxPages == 17

PageWidths == {4, 6}

PageHeights == {4, 8}

InFiles == {"None", "-", "in.pdf"}

OutFiles == {"None", "-", "out.pdf"}

(* The input file as found on disk: absent, unreadable as a PDF, or a PDF  *)
(* with npages pages whose first page has crop box width x height.         *)
Docs ==
    {[exists |-> FALSE, valid |-> FALSE, npages |-> 0, width |-> 4, height |-> 4],
     [exists |-> TRUE, valid |-> FALSE, npages |-> 0, width |-> 4, height |-> 4]}
    \cup [exists : {TRUE}, valid : {TRUE}, npages : 0..MaxPages,
          width : PageWidths, height : PageHeights]

(* ------------------------ pypdf Transformation ------------------------- *)

Identity == <<2, 0, 0, 2, 0, 0>>

(* matrix product "first m, then n" of two ctm's (row-vector convention)   *)
Compose(m, n) ==
    << (m[1] * n[1] + m[2] * n[3]) \div 2,
       (m[1] * n[2] + m[2] * n[4]) \div 2,
       (m[3] * n[1] + m[4] * n[3]) \div 2,
       (m[3] * n[2] + m[4] * n[4]) \div 2,
       (m[5] * n[1] + m[6] * n[3]) \div 2 + n[5],
       (m[5] * n[2] + m[6] * n[4]) \div 2 + n[6] >>

(* Transformation.scale(sx, sy), factors given in halves                   *)
Scale(t, sx, sy) == Compose(t, <<sx, 0, 0, sy, 0, 0>>)

(* Transformation.translate(tx, ty)                                        *)
Translate(t, tx, ty) == Compose(t, <<2, 0, 0, 2, tx, ty>>)

(* cosine and sine, in halves, of a multiple of 90 degrees                 *)
Cos2(deg) == CASE deg % 360 = 0 -> 2
               [] deg % 360 = 90 -> 0
               [] deg % 360 = 180 -> -2
               [] OTHER -> 0

Sin2(deg) == CASE deg % 360 = 0 -> 0
               [] deg % 360 = 90 -> 2
               [] deg % 360 = 180 -> 0
               [] OTHER -> -2

(* Transformation.rotate(deg)                                              *)
Rotate(t, deg) == Compose(t, <<Cos2(deg), Sin2(deg), 0 - Sin2(deg), Cos2(deg), 0, 0>>)

(* ------------------------------ pages ---------------------------------- *)

(* PageObject.create_blank_page: a fresh object, told apart by its serial  *)
create_blank_page(serial, width, height) ==
    [kind |-> "blank", idx |-> serial, width |-> width, height |-> height]

(* list(reader.pages) of a document with n pages                           *)
ReaderPages(d) ==
    [k \in 1..d.npages |->
        [kind |-> "source", idx |-> k - 1, width |-> d.width, height |-> d.height]]

(* floor in place of ceil: the target is the multiple of 8 below           *)
floor8(n) == n \div 8

(* math.ceil(n / 8)                                                        *)
ceil8(n) == IF n % 8 = 0 THEN n \div 8 ELSE n \div 8 + 1

(* padding that always moves on to the following multiple of 8             *)
pad_pages_next_multiple(original_pages, final_width, final_height) ==
    LET nump == Len(original_pages)
        padding_needed == 8 * (nump \div 8 + 1) - nump
    IN  original_pages \o
        [k \in 1..padding_needed |-> create_blank_page(k - 1, final_width, final_height)]

pad_pages(original_pages, final_width, final_height) ==
    LET nump == Len(original_pages)
        target_nump == 8 * ceil8(nump)
        padding_needed == target_nump - nump
    IN  IF nump % 8 = 0 THEN original_pages
        ELSE original_pages \o
             [k \in 1..padding_needed |-> create_blank_page(k - 1, final_width, final_height)]

(* ----------------------- index arithmetic ------------------------------- *)

num_spreads_of(nump) == nump \div 2

(* one sheet per spread instead of one per two spreads                     *)
num_final_sheets_per_spread(nump) == nump \div 2

num_final_sheets_of(nump) == nump \div 4

(* front index taken from the 1-based loop counter without the - 1         *)
front_page_idx_off_by_one(k) == k

front_page_idx(k) == k - 1

back_page_idx(k, nump) == nump - k

(* parity rule swapped: back on the left on even iterations                *)
back_on_left_swapped(k) == k % 2 = 0

back_on_left(k) == k % 2 # 0

(* top spread taken one further along the list                             *)
top_spread_idx_shifted(k) == k + 1

top_spread_idx(k) == k

(* bottom index one too small: the last sheet pairs a spread with itself   *)
bottom_spread_idx_short(k, nspreads) == nspreads - k - 2

bottom_spread_idx(k, nspreads) == nspreads - k - 1

(* ------------------------ placement transforms ------------------------- *)

scale_transform == Scale(Identity, 1, 1)

translate_top(spread_height) == Translate(Identity, 0, spread_height)

rotate_transform == Rotate(Identity, 180)

(* bottom spread moved right only, left on the lower edge                  *)
translate_transform_no_lift(spread_width, spread_height) ==
    Translate(Identity, spread_width, 0)

translate_transform(spread_width, spread_height) ==
    Translate(Identity, spread_width, spread_height)

(* the transformation a page's content carries after the add_transformation *)
(* calls made on it, in the order they were made                           *)
RECURSIVE ContentCtm(_)
ContentCtm(added) ==
    IF added = <<>> THEN Identity
    ELSE Compose(ContentCtm(SubSeq(added, 1, Len(added) - 1)), added[Len(added)])

(* ------------------------------ state ---------------------------------- *)

SPREAD_WIDTH == FINAL_WIDTH

SPREAD_HEIGHT == FINAL_HEIGHT \div 2

nump == Len(pages)

num_spreads == num_spreads_of(nump)

num_final_sheets == num_final_sheets_of(nump)

(* the byte stream PdfWriter.write produces, as the pieces it writes       *)
Serialized(w) == <<"header">> \o w.pages \o <<"trailer">>

Blank ==
    /\ pc = "main"
    /\ err = "none"
    /\ reader = [open |-> FALSE, pages |-> <<>>]
    /\ FINAL_WIDTH = 0
    /\ FINAL_HEIGHT = 0
    /\ pages = <<>>
    /\ i = 0
    /\ spread_pages = <<>>
    /\ final_writer = [created |-> FALSE, pages |-> <<>>]
    /\ j = 0
    /\ out = [opened |-> FALSE, data |-> <<>>]

Init ==
    /\ args \in [infile : InFiles, outfile : OutFiles]
    /\ doc \in Docs
    /\ Blank

(* sys.exit(1) / an exception leaving run_minibook                         *)
Fail(reason) ==
    /\ pc' = "failed"
    /\ err' = reason

(* main(): default output path                                             *)
Main ==
    /\ pc = "main"
    /\ args' = IF args.infile # "None" /\ args.outfile = "None" /\ args.infile # "-"
               THEN [args EXCEPT !.outfile = "in.minibook.pdf"]
               ELSE args
    /\ pc' = "check_infile"
    /\ UNCHANGED <<doc, err, reader, FINAL_WIDTH, FINAL_HEIGHT, pages, i,
                   spread_pages, final_writer, j, out>>

(* run_minibook, part 1: the input must be a named, existing file          *)
CheckInfile ==
    /\ pc = "check_infile"
    /\ IF args.infile = "None" \/ args.infile = "-" THEN Fail("usage")
       ELSE IF ~doc.exists THEN Fail("notfound")
       ELSE pc' = "open_reader" /\ err' = err
    /\ UNCHANGED <<args, doc, reader, FINAL_WIDTH, FINAL_HEIGHT, pages, i,
                   spread_pages, final_writer, j, out>>

(* the zero-page test left out                                             *)
no_pages_unchecked(nump_original) == FALSE

no_pages(nump_original) == nump_original = 0

(* PdfReader(infile) and the zero-page test                                *)
OpenReader ==
    /\ pc = "open_reader"
    /\ IF ~doc.valid THEN
            /\ Fail("readerror")
            /\ reader' = reader
       ELSE /\ reader' = [open |-> TRUE, pages |-> ReaderPages(doc)]
            /\ IF no_pages(Len(ReaderPages(doc))) THEN Fail("nopages")
               ELSE pc' = "pad" /\ err' = err
    /\ UNCHANGED <<args, doc, FINAL_WIDTH, FINAL_HEIGHT, pages, i,
                   spread_pages, final_writer, j, out>>

(* page size of the first page, padding, empty spread list                 *)
Pad ==
    /\ pc = "pad"
    /\ FINAL_WIDTH' = doc.width
    /\ FINAL_HEIGHT' = doc.height
    /\ pages' = pad_pages(reader.pages, doc.width, doc.height)
    /\ spread_pages' = <<>>
    /\ i' = 1
    /\ pc' = "spreads"
    /\ UNCHANGED <<args, doc, err, reader, final_writer, j, out>>

(* one iteration of the Phase 1 loop                                       *)
BuildSpread ==
    /\ pc = "spreads"
    /\ i <= num_spreads
    /\ LET P_Front == pages[front_page_idx(i) + 1]
           P_Back == pages[back_page_idx(i, nump) + 1]
           right_page_tx == SPREAD_WIDTH \div 2
           P_L == IF back_on_left(i) THEN P_Back ELSE P_Front
           P_R == IF back_on_left(i) THEN P_Front ELSE P_Back
           transform_L == Translate(scale_transform, 0, 0)
           transform_R == Translate(scale_transform, right_page_tx, 0)
           spread_canvas ==
               [width |-> SPREAD_WIDTH, height |-> SPREAD_HEIGHT,
                placed |-> << [page |-> P_L, ctm |-> transform_L],
                              [page |-> P_R, ctm |-> transform_R] >>,
                added |-> <<>>]
       IN  spread_pages' = Append(spread_pages, spread_canvas)
    /\ i' = i + 1
    /\ UNCHANGED <<args, doc, pc, err, reader, FINAL_WIDTH, FINAL_HEIGHT, pages,
                   final_writer, j, out>>

(* end of the Phase 1 loop: final_writer = PdfWriter()                     *)
CreateWriter ==
    /\ pc = "spreads"
    /\ i > num_spreads
    /\ final_writer' = [created |-> TRUE, pages |-> <<>>]
    /\ j' = 0
    /\ pc' = "sheets"
    /\ UNCHANGED <<args, doc, err, reader, FINAL_WIDTH, FINAL_HEIGHT, pages, i,
                   spread_pages, out>>

(* one iteration of the Phase 2 loop                                       *)
BuildSheet ==
    /\ pc = "sheets"
    /\ j < num_final_sheets
    /\ LET t == top_spread_idx(j) + 1
           b == bottom_spread_idx(j, num_spreads) + 1
           S_Top == spread_pages[t]
           top_placed == [spread |-> t - 1, state |-> S_Top.added,
                          ctm |-> Compose(ContentCtm(S_Top.added),
                                          translate_top(SPREAD_HEIGHT))]
           added_b == spread_pages[b].added
                      \o <<rotate_transform,
                           translate_transform(SPREAD_WIDTH, SPREAD_HEIGHT)>>
           bottom_placed == [spread |-> b - 1, state |-> added_b,
                             ctm |-> ContentCtm(added_b)]
           final_canvas == [width |-> FINAL_WIDTH, height |-> FINAL_HEIGHT,
                            placed |-> <<top_placed, bottom_placed>>]
       IN  /\ spread_pages' = [spread_pages EXCEPT ![b].added = added_b]
           /\ final_writer' = [final_writer EXCEPT !.pages = Append(@, final_canvas)]
    /\ j' = j + 1
    /\ UNCHANGED <<args, doc, pc, err, reader, FINAL_WIDTH, FINAL_HEIGHT, pages, i,
                   out>>

(* end of the Phase 2 loop: pick the destination; a file is opened "wb",   *)
(* which may fail                                                          *)
OpenOutput ==
    /\ pc = "sheets"
    /\ j >= num_final_sheets
    /\ IF args.outfile = "None" \/ args.outfile = "-" THEN
            /\ out' = [out EXCEPT !.opened = TRUE]
            /\ pc' = "writing"
            /\ err' = err
       ELSE \/ /\ out' = [opened |-> TRUE, data |-> <<>>]
               /\ pc' = "writing"
               /\ err' = err
            \/ /\ out' = out
               /\ Fail("ioerror")
    /\ UNCHANGED <<args, doc, reader, FINAL_WIDTH, FINAL_HEIGHT, pages, i,
                   spread_pages, final_writer, j>>

(* final_writer.write(stream): the next piece reaches the stream, or the   *)
(* write raises and the exception leaves run_minibook                      *)
WriteChunk ==
    /\ pc = "writing"
    /\ Len(out.data) < Len(Serialized(final_writer))
    /\ \/ /\ out' = [out EXCEPT !.data = Append(@, Serialized(final_writer)[Len(out.data) + 1])]
          /\ UNCHANGED <<pc, err>>
       \/ /\ out' = out
          /\ Fail("ioerror")
    /\ UNCHANGED <<args, doc, reader, FINAL_WIDTH, FINAL_HEIGHT, pages, i,
                   spread_pages, final_writer, j>>

(* everything written: "Process complete."                                 *)
Finish ==
    /\ pc = "writing"
    /\ Len(out.data) = Len(Serialized(final_writer))
    /\ pc' = "done"
    /\ UNCHANGED <<args, doc, err, reader, FINAL_WIDTH, FINAL_HEIGHT, pages, i,
                   spread_pages, final_writer, j, out>>

Next ==
    \/ Main
    \/ CheckInfile
    \/ OpenReader
    \/ Pad
    \/ BuildSpread
    \/ CreateWriter
    \/ BuildSheet
    \/ OpenOutput
    \/ WriteChunk
    \/ Finish

Spec == Init /\ [][Next]_vars

(* ---- pad_pages on its own, applied to any reader of 0..MaxPages pages -- *)

InitPad ==
    /\ args \in [infile : {"in.pdf"}, outfile : OutFiles]
    /\ doc \in [exists : {TRUE}, valid : {TRUE}, npages : 0..MaxPages,
                width : PageWidths, height : PageHeights]
    /\ pc = "pad_call"
    /\ err = "none"
    /\ reader = [open |-> TRUE, pages |-> ReaderPages(doc)]
    /\ FINAL_WIDTH = doc.width
    /\ FINAL_HEIGHT = doc.height
    /\ pages = <<>>
    /\ i = 0
    /\ spread_pages = <<>>
    /\ final_writer = [created |-> FALSE, pages |-> <<>>]
    /\ j = 0
    /\ out = [opened |-> FALSE, data |-> <<>>]

(* pages = pad_pages(reader, FINAL_WIDTH, FINAL_HEIGHT, args); the function *)
(* has no raise statement, so the call always returns                      *)
PadCall ==
    /\ pc = "pad_call"
    /\ pages' = pad_pages(reader.pages, FINAL_WIDTH, FINAL_HEIGHT)
    /\ pc' = "pad_ret"
    /\ UNCHANGED <<args, doc, err, reader, FINAL_WIDTH, FINAL_HEIGHT, i,
                   spread_pages, final_writer, j, out>>

NextPad == PadCall

SpecPad == InitPad /\ [][NextPad]_vars

(* ------------------------------ claims --------------------------------- *)

(* pad_pages has returned in the driver                                    *)
AfterPad ==
    \/ pc \in {"spreads", "sheets", "writing", "done"}
    \/ pc = "failed" /\ err = "ioerror"

(* the spread loop has run to its end                                      *)
AfterSpreads ==
    \/ pc \in {"sheets", "writing", "done"}
    \/ pc = "failed" /\ err = "ioerror"

(* the sheet loop has run to its end                                       *)
AfterSheets ==
    \/ pc \in {"writing", "done"}
    \/ pc = "failed" /\ err = "ioerror"

(* C1: for every original page count N >= 1 the number of blank pages      *)
(* added, pad = len(padded deck) - N, makes N + pad a multiple of 8, lies  *)
(* in 0..7, and is 0 exactly when N mod 8 = 0; the deck is the original    *)
(* pages followed by that many blank pages.                                *)
C1_PaddingToMultipleOf8 ==
    (AfterPad /\ Len(reader.pages) >= 1) =>
        LET N == Len(reader.pages)
            pad == Len(pages) - N
        IN  /\ (N + pad) % 8 = 0
            /\ 0 <= pad
            /\ pad < 8
            /\ (pad = 0) <=> (N % 8 = 0)
            /\ \A k \in 1..Len(pages) :
                  IF k <= N THEN pages[k] = reader.pages[k]
                  ELSE pages[k].kind = "blank"

C1_Witness ==
    /\ AfterPad
    /\ Len(reader.pages) = 5
    /\ Len(pages) = 8

(* C2: when the reader reports zero pages the run is in the failure state  *)
(* and nothing was produced: no spread, no sheet, no writer, no output.    *)
C2_ZeroPagesFailsWithoutOutput ==
    (reader.open /\ Len(reader.pages) = 0) =>
        /\ pc = "failed"
        /\ err = "nopages"
        /\ spread_pages = <<>>
        /\ ~final_writer.created
        /\ final_writer.pages = <<>>
        /\ ~out.opened
        /\ out.data = <<>>

C2_Witness ==
    /\ pc = "failed"
    /\ err = "nopages"
    /\ reader.open
    /\ Len(reader.pages) = 0

(* C3 as stated: pad_pages called on a reader with no pages does not       *)
(* return but fails with the zero-page (invalid input) error.              *)
C3_PadOfZeroFails ==
    (pc # "pad_call" /\ Len(reader.pages) = 0) =>
        /\ pc = "failed"
        /\ err = "nopages"

(* C3 as amended: pad_pages called on a reader with no pages returns,      *)
(* without failing, the empty deck: no page and no padding.                *)
C3_PadOfZeroReturnsEmptyDeck ==
    (pc # "pad_call" /\ Len(reader.pages) = 0) =>
        /\ pc = "pad_ret"
        /\ err = "none"
        /\ pages = <<>>

C3_Witness ==
    /\ pc = "pad_ret"
    /\ Len(reader.pages) = 0

(* C4: the deck has a length N that is a multiple of 8; the spreads are    *)
(* built in order i = 1..N/2, exactly N/2 of them once the loop is over;   *)
(* spread i has size (W, H/2) and holds deck[N-i] (back) in the left slot  *)
(* (origin (0,0)) and deck[i-1] (front) in the right slot (origin          *)
(* (W/2,0)) when i is odd, and front left, back right when i is even.      *)
C4_SpreadsPairFrontAndBack ==
    AfterPad =>
        LET N == Len(pages)
        IN  /\ N % 8 = 0
            /\ pc = "spreads" => Len(spread_pages) = i - 1
            /\ AfterSpreads => Len(spread_pages) = N \div 2
            /\ \A k \in 1..Len(spread_pages) :
                  LET front == pages[k]
                      back == pages[N - k + 1]
                      sp == spread_pages[k]
                  IN  /\ sp.width = doc.width
                      /\ 2 * sp.height = doc.height
                      /\ Len(sp.placed) = 2
                      /\ sp.placed[1].ctm = <<1, 0, 0, 1, 0, 0>>
                      /\ SubSeq(sp.placed[2].ctm, 1, 4) = <<1, 0, 0, 1>>
                      /\ 2 * sp.placed[2].ctm[5] = doc.width
                      /\ sp.placed[2].ctm[6] = 0
                      /\ sp.placed[1].page = (IF k % 2 = 1 THEN back ELSE front)
                      /\ sp.placed[2].page = (IF k % 2 = 1 THEN front ELSE back)

C4_Witness ==
    /\ pc = "done"
    /\ Len(reader.pages) = 16
    /\ Len(spread_pages) = 8
    /\ spread_pages[1].placed[1].page = pages[16]
    /\ spread_pages[2].placed[2].page = pages[15]

(* C5: the sheets are appended in order j = 0..N/4-1, exactly N/4 of them  *)
(* once the loop is over; the sheet at output position j has size (W, H),  *)
(* top = spreads[j] and bottom = spreads[S-1-j]; what has reached the      *)
(* output destination is a prefix of the sheets in that same order.        *)
C5_SheetsInOrder ==
    AfterSpreads =>
        LET S == Len(spread_pages)
            sheets == final_writer.pages
        IN  /\ pc = "sheets" => Len(sheets) = j
            /\ AfterSheets => Len(sheets) = Len(pages) \div 4
            /\ \A k \in 1..Len(sheets) :
                  /\ sheets[k].width = doc.width
                  /\ sheets[k].height = doc.height
                  /\ Len(sheets[k].placed) = 2
                  /\ sheets[k].placed[1].spread = k - 1
                  /\ sheets[k].placed[2].spread = S - 1 - (k - 1)
            /\ Len(out.data) <= Len(sheets) + 2
            /\ \A k \in 2..Len(out.data) :
                  k <= Len(sheets) + 1 => out.data[k] = sheets[k - 1]

C5_Witness ==
    /\ pc = "done"
    /\ Len(final_writer.pages) = 4
    /\ Len(out.data) = 6
    /\ final_writer.pages[4].placed[1].spread = 3
    /\ final_writer.pages[4].placed[2].spread = 4

(* C6 as stated: on every sheet the top spread is placed unrotated at      *)
(* (0, H/2) and the bottom spread is rotated 180 degrees about its origin  *)
(* and then translated by (W/2, H/2).                                      *)
C6_BottomTranslatedByHalfWidth ==
    \A k \in 1..Len(final_writer.pages) :
        LET sh == final_writer.pages[k]
        IN  /\ sh.placed[1].ctm[1] = 2 /\ sh.placed[1].ctm[2] = 0
            /\ sh.placed[1].ctm[3] = 0 /\ sh.placed[1].ctm[4] = 2
            /\ sh.placed[1].ctm[5] = 0
            /\ 2 * sh.placed[1].ctm[6] = doc.height
            /\ sh.placed[2].ctm[1] = -2 /\ sh.placed[2].ctm[2] = 0
            /\ sh.placed[2].ctm[3] = 0 /\ sh.placed[2].ctm[4] = -2
            /\ 2 * sh.placed[2].ctm[5] = doc.width
            /\ 2 * sh.placed[2].ctm[6] = doc.height

(* C6 as amended: on every sheet the top spread is placed unrotated at     *)
(* (0, H/2) and the bottom spread is rotated 180 degrees about its origin  *)
(* and then translated by (W, H/2), the full width and half the height.    *)
C6_BottomTranslatedByFullWidth ==
    \A k \in 1..Len(final_writer.pages) :
        LET sh == final_writer.pages[k]
        IN  /\ sh.placed[1].ctm[1] = 2 /\ sh.placed[1].ctm[2] = 0
            /\ sh.placed[1].ctm[3] = 0 /\ sh.placed[1].ctm[4] = 2
            /\ sh.placed[1].ctm[5] = 0
            /\ 2 * sh.placed[1].ctm[6] = doc.height
            /\ sh.placed[2].ctm[1] = -2 /\ sh.placed[2].ctm[2] = 0
            /\ sh.placed[2].ctm[3] = 0 /\ sh.placed[2].ctm[4] = -2
            /\ sh.placed[2].ctm[5] = doc.width
            /\ 2 * sh.placed[2].ctm[6] = doc.height

C6_Witness ==
    /\ pc = "done"
    /\ Len(final_writer.pages) = 4
    /\ doc.width = 6
    /\ doc.height = 8
    /\ final_writer.pages[4].placed[2].ctm = <<-2, 0, 0, -2, 6, 4>>

(* C7: a run that has failed has written nothing to the output             *)
(* destination.                                                            *)
C7_FailedRunWroteNothing ==
    pc = "failed" => out.data = <<>>

(* the slots of the spreads built so far that hold deck position p         *)
SlotsHolding(p) ==
    {ks \in (1..Len(spread_pages)) \X {1, 2} :
        spread_pages[ks[1]].placed[ks[2]].page = pages[p]}

(* C8: no deck position is placed twice, on two spreads or on one, and     *)
(* once the spread loop is over every deck position is placed exactly      *)
(* once.                                                                   *)
C8_PagePairingCoverage ==
    AfterPad =>
        \A p \in 1..Len(pages) :
            /\ Cardinality(SlotsHolding(p)) <= 1
            /\ AfterSpreads => Cardinality(SlotsHolding(p)) = 1

C8_Witness ==
    /\ pc = "sheets"
    /\ Len(reader.pages) = 13
    /\ Len(pages) = 16
    /\ Len(spread_pages) = 8

(* the halves of the sheets built so far that hold spread index q          *)
HalvesHolding(q) ==
    {ks \in (1..Len(final_writer.pages)) \X {1, 2} :
        final_writer.pages[ks[1]].placed[ks[2]].spread = q}

(* C9: no spread is placed twice, on two sheets or as top and bottom of    *)
(* one, and once the sheet loop is over every spread index 0..S-1 is       *)
(* placed exactly once.                                                    *)
C9_SheetPairingCoverage ==
    AfterSpreads =>
        \A q \in 0..(Len(spread_pages) - 1) :
            /\ Cardinality(HalvesHolding(q)) <= 1
            /\ AfterSheets => Cardinality(HalvesHolding(q)) = 1

C9_Witness ==
    /\ pc = "writing"
    /\ Len(spread_pages) = 8
    /\ Len(final_writer.pages) = 4

(* C10: every spread has received the in-place rotate-then-translate       *)
(* either never or exactly once; every spread merged as a top was in its   *)
(* as-built state (no in-place transform) when merged, and every spread    *)
(* merged as a bottom carried exactly its own one rotate-then-translate.   *)
C10_InPlaceTransformAtMostOnce ==
    /\ \A k \in 1..Len(spread_pages) : Len(spread_pages[k].added) \in {0, 2}
    /\ \A k \in 1..Len(final_writer.pages) :
          /\ final_writer.pages[k].placed[1].state = <<>>
          /\ Len(final_writer.pages[k].placed[2].state) = 2

C10_Witness ==
    /\ pc = "done"
    /\ Len(final_writer.pages) = 4
    /\ Len(spread_pages[8].added) = 2
    /\ spread_pages[1].added = <<>>

====
